---- MODULE Spec2Model ----
(***************************************************************************)
(* Inline content engine and position mapper of the shibuya editor:       *)
(* deleteInlineContents, splitInlineContents, getBlockLength,             *)
(* getNativeIndexFromBlockIndex and getBlockIndexFromNativeIndex          *)
(* (utils/block.ts).  A string is a sequence of characters; a block       *)
(* element is the sequence of its child elements.  SpecSync adds          *)
(* getInlineContents on an element edited outside the editor, SpecHistory *)
(* the block store with its source-tagged history (undo/redo).            *)
(***************************************************************************)
EXTENDS Integers, Sequences, FiniteSets, TLC

VARIABLES contents, dom, pc, args, ret

\* the block store, the history (undo) stack, the redo stack, whether the
\* last frame is still open for merging, and the last call made
VARIABLES blocks, undoStack, redoStack, recording, call

hvars == <<blocks, undoStack, redoStack, recording, call>>

vars == <<contents, dom, pc, args, ret, hvars>>

\* ---------------------------------------------------------------- bounds
MaxRuns == 3
MaxLength == 4

\* settings.modules.history.maxStack, the configured maximum of frames
MaxStack == 2

\* ------------------------------------------------------------ characters
\* the zero-width sentinel
FEFF == "FEFF"

Null == [null |-> TRUE]

\* id given by nanoid() to a run created by createInline: differs from
\* the id of every run of the input
NewId == 0

\* ------------------------------------------------------- JavaScript strings
Max(a, b) == IF a > b THEN a ELSE b

Min(a, b) == IF a < b THEN a ELSE b

\* relative index of String.prototype.slice: negative counts from the end,
\* the result is clamped into 0..len
RelIndex(k, len) == IF k < 0 THEN Max(len + k, 0) ELSE Min(k, len)

\* text.slice(start, end)
Slice(text, start, end) ==
    LET from == RelIndex(start, Len(text))
        to == RelIndex(end, Len(text))
    IN SubSeq(text, from + 1, to)

\* text.slice(start)
SliceFrom(text, start) == Slice(text, start, Len(text))

\* text.replaceAll(/FEFF/gi, '')
RECURSIVE StripFEFF(_)
StripFEFF(text) ==
    IF text = <<>> THEN <<>>
    ELSE IF Head(text) = FEFF THEN StripFEFF(Tail(text))
    ELSE <<Head(text)>> \o StripFEFF(Tail(text))

\* ------------------------------------------------------------------ inline
EmbedTypes == {"IMAGE"}

isEmbed(format) == format \in EmbedTypes

createInline(type) ==
    [id |-> NewId, type |-> type, text |-> <<FEFF>>, attributes |-> {},
     isEmbed |-> isEmbed(type)]

\* contents[i].isEmbed ? 1 : contents[i].text.length
InlineLength(inline) == IF inline.isEmbed THEN 1 ELSE Len(inline.text)

\* ---------------------------------------------------- deleteInlineContents
\* InRun without the lower bound of the run
InRun_NoLower(startIndex, cumulativeLength, inlineLength) ==
    startIndex < cumulativeLength + inlineLength

\* startIndex >= cumulativeLength && startIndex < cumulativeLength + inlineLength
InRun(startIndex, cumulativeLength, inlineLength) ==
    /\ startIndex >= cumulativeLength
    /\ startIndex < cumulativeLength + inlineLength

\* textlength - length >= 0 ? length : textlength
DeleteLength(textlength, length) ==
    IF textlength - length >= 0 THEN length ELSE textlength

\* the text run that holds startIndex: its slice is cut out, the rest is
\* pushed when not empty
DeleteText(st, inline, startIndex) ==
    LET deleteIndex == startIndex - st.cumulativeLength
        textlength == Len(inline.text) - deleteIndex
        deletelength == DeleteLength(textlength, st.length)
        text == Slice(inline.text, 0, deleteIndex)
                  \o SliceFrom(inline.text, deleteIndex + deletelength)
    IN [cumulativeLength |-> st.cumulativeLength + InlineLength(inline),
        length |-> st.length - deletelength,
        dest |-> IF Len(text) > 0
                 THEN Append(st.dest, [inline EXCEPT !.text = text])
                 ELSE st.dest]

\* the embed run that holds startIndex: length--, nothing is pushed
DeleteEmbed(st, inline) ==
    [cumulativeLength |-> st.cumulativeLength + InlineLength(inline),
     length |-> st.length - 1,
     dest |-> st.dest]

\* every other run is pushed as it is
DeleteKeep(st, inline) ==
    [cumulativeLength |-> st.cumulativeLength + InlineLength(inline),
     length |-> st.length,
     dest |-> Append(st.dest, inline)]

\* one iteration of the for loop of deleteInlineContents
DeleteStep(st, inline, startIndex) ==
    IF st.length > 0 /\ InRun(startIndex, st.cumulativeLength, InlineLength(inline))
    THEN IF ~inline.isEmbed
         THEN DeleteText(st, inline, startIndex)
         ELSE DeleteEmbed(st, inline)
    ELSE DeleteKeep(st, inline)

\* the for loop of deleteInlineContents from run i on; st carries
\* cumulativeLength, the remaining length and destContents
RECURSIVE DeleteLoop(_, _, _, _)
DeleteLoop(c, startIndex, i, st) ==
    IF i > Len(c) THEN st
    ELSE DeleteLoop(c, startIndex, i + 1, DeleteStep(st, c[i], startIndex))

\* state of deleteInlineContents when its loop ends
DeleteWalk(c, index, length) ==
    DeleteLoop(c, index, 1, [cumulativeLength |-> 0, length |-> length, dest |-> <<>>])

\* WithPlaceholder without the substitution of the placeholder
WithPlaceholder_Never(destContents) == destContents

\* destContents.length < 1 ? [createInline('TEXT')] : destContents
WithPlaceholder(destContents) ==
    IF Len(destContents) < 1
    THEN Append(destContents, createInline("TEXT"))
    ELSE destContents

deleteInlineContents(c, index, length) ==
    WithPlaceholder(DeleteWalk(c, index, length).dest)

\* ----------------------------------------------------- splitInlineContents
\* the text run that holds startIndex: left fragment to firstContents,
\* right fragment after the discarded slice to lastContents
SplitText(st, inline, startIndex) ==
    LET deleteIndex == startIndex - st.cumulativeLength
        textlength == Len(inline.text) - deleteIndex
        deletelength == DeleteLength(textlength, st.length)
        firstText == Slice(inline.text, 0, deleteIndex)
        lastText == SliceFrom(inline.text, deleteIndex + deletelength)
    IN [cumulativeLength |-> st.cumulativeLength + InlineLength(inline),
        length |-> st.length - deletelength,
        first |-> IF Len(firstText) > 0
                  THEN Append(st.first, [inline EXCEPT !.text = firstText])
                  ELSE st.first,
        last |-> IF Len(lastText) > 0
                 THEN Append(st.last, [inline EXCEPT !.text = lastText])
                 ELSE st.last]

\* SplitEmbed pushing the embed to firstContents
SplitEmbed_ToFirst(st, inline) ==
    [cumulativeLength |-> st.cumulativeLength + InlineLength(inline),
     length |-> st.length - 1,
     first |-> Append(st.first, inline),
     last |-> st.last]

\* the embed run that holds startIndex: length--, pushed to lastContents
SplitEmbed(st, inline) ==
    [cumulativeLength |-> st.cumulativeLength + InlineLength(inline),
     length |-> st.length - 1,
     first |-> st.first,
     last |-> Append(st.last, inline)]

\* SplitOther pushing a run to both sides while length > 0
SplitOther_Both(st, inline) ==
    [cumulativeLength |-> st.cumulativeLength + InlineLength(inline),
     length |-> st.length,
     first |-> IF st.length > 0 THEN Append(st.first, inline) ELSE st.first,
     last |-> Append(st.last, inline)]

\* every other run: firstContents while length > 0, lastContents otherwise
SplitOther(st, inline) ==
    IF st.length > 0
    THEN [cumulativeLength |-> st.cumulativeLength + InlineLength(inline),
          length |-> st.length,
          first |-> Append(st.first, inline),
          last |-> st.last]
    ELSE [cumulativeLength |-> st.cumulativeLength + InlineLength(inline),
          length |-> st.length,
          first |-> st.first,
          last |-> Append(st.last, inline)]

\* one iteration of the for loop of splitInlineContents
SplitStep(st, inline, startIndex) ==
    IF InRun(startIndex, st.cumulativeLength, InlineLength(inline))
    THEN IF ~inline.isEmbed
         THEN SplitText(st, inline, startIndex)
         ELSE SplitEmbed(st, inline)
    ELSE SplitOther(st, inline)

RECURSIVE SplitLoop(_, _, _, _)
SplitLoop(c, startIndex, i, st) ==
    IF i > Len(c) THEN st
    ELSE SplitLoop(c, startIndex, i + 1, SplitStep(st, c[i], startIndex))

\* state of splitInlineContents when its loop ends: first and last are the
\* returned pair, length is what remains of the discard budget
splitInlineContents(c, index, length) ==
    SplitLoop(c, index, 1,
              [cumulativeLength |-> 0, length |-> length, first |-> <<>>, last |-> <<>>])

\* ------------------------------------------------------------ block element
\* the child element rendered for a run: data-format, data-inline-id and
\* innerText
RenderInline(inline) ==
    [format |-> inline.type, inlineId |-> inline.id, innerText |-> inline.text]

\* the children of the block element rendered for a contents sequence
Render(c) == [i \in 1..Len(c) |-> RenderInline(c[i])]

\* targetElement.firstChild is null exactly for an element without content
HasFirstChild(el) == el.innerText # <<>>

\* BlockLengthInline counting the sentinel
BlockLengthInline_NoStrip(el) ==
    IF isEmbed(el.format) THEN 1 ELSE Len(el.innerText)

\* isEmbed(format) ? 1 : innerText.replaceAll(/FEFF/gi, '').length
BlockLengthInline(el) ==
    IF isEmbed(el.format) THEN 1 ELSE Len(StripFEFF(el.innerText))

\* the loop of getBlockLength from child i on
RECURSIVE BlockLengthLoop(_, _, _)
BlockLengthLoop(children, i, cumulativeLength) ==
    IF i > Len(children) THEN cumulativeLength
    ELSE BlockLengthLoop(children, i + 1, cumulativeLength + BlockLengthInline(children[i]))

getBlockLength(element) ==
    IF element = Null THEN Null
    ELSE [null |-> FALSE, value |-> BlockLengthLoop(element.children, 1, 0)]

\* isEmbed(format) ? 1 : innerText.length, in getNativeIndexFromBlockIndex
NativeInlineLength(el) ==
    IF isEmbed(el.format) THEN 1 ELSE Len(el.innerText)

\* the loop of getNativeIndexFromBlockIndex from child i on
RECURSIVE NativeIndexLoop(_, _, _, _)
NativeIndexLoop(children, index, i, cumulativeLength) ==
    IF i > Len(children) THEN Null
    ELSE
      LET inlineLength == NativeInlineLength(children[i])
      IN IF index <= cumulativeLength + inlineLength /\ HasFirstChild(children[i])
         THEN [null |-> FALSE,
               node |-> [child |-> i, isText |-> ~isEmbed(children[i].format)],
               index |-> index - cumulativeLength]
         ELSE NativeIndexLoop(children, index, i + 1, cumulativeLength + inlineLength)

getNativeIndexFromBlockIndex(element, index) ==
    IF element = Null THEN Null
    ELSE NativeIndexLoop(element.children, index, 1, 0)

\* getInlineId(node): the child element of the block that holds the node
getInlineId(element, node) ==
    IF node.child \in 1..Len(element.children) THEN node.child ELSE 0

\* BlockIndexInlineLength leaving the sentinel out
BlockIndexInlineLength_Strip(el) ==
    IF isEmbed(el.format) THEN 1 ELSE Len(StripFEFF(el.innerText))

\* isEmbed(format) ? 1 : innerText.length, in getBlockIndexFromNativeIndex
BlockIndexInlineLength(el) ==
    IF isEmbed(el.format) THEN 1 ELSE Len(el.innerText)

\* the loop of getBlockIndexFromNativeIndex from child i on
RECURSIVE BlockIndexLoop(_, _, _, _, _)
BlockIndexLoop(children, inlineElement, offset, i, cumulativeLength) ==
    IF i > Len(children) THEN Null
    ELSE
      LET inlineLength == BlockIndexInlineLength(children[i])
      IN IF i = inlineElement
         THEN [null |-> FALSE, index |-> cumulativeLength + offset]
         ELSE BlockIndexLoop(children, inlineElement, offset, i + 1,
                             cumulativeLength + inlineLength)

getBlockIndexFromNativeIndex(element, node, offset) ==
    LET inlineElement == getInlineId(element, node)
    IN IF inlineElement = 0 THEN Null
       ELSE BlockIndexLoop(element.children, inlineElement, offset, 1, 0)

\* -------------------------------------------------------- getInlineContents
\* a child element without data-format
NoFormat == ""

\* a child element without data-inline-id
NoInlineId == -1

\* InlineWellFormed skipping only a child that lacks both
InlineWellFormed_Both(el) == ~(el.format = NoFormat /\ el.inlineId = NoInlineId)

\* the negation of !format || !inline.dataset.inlineId
InlineWellFormed(el) == ~(el.format = NoFormat \/ el.inlineId = NoInlineId)

\* innerText.match(/FEFF$/i)
EndsWithFEFF(text) == text # <<>> /\ text[Len(text)] = FEFF

\* innerText.match(/^FEFF/i)
StartsWithFEFF(text) == text # <<>> /\ text[1] = FEFF

\* the text of the run read from child i (currentIndex = i - 1)
SyncedText(el, i) ==
    LET text == StripFEFF(el.innerText)
    IN IF i - 1 = 0 /\ Len(text) < 1 THEN <<FEFF>> ELSE text

\* the run read from child i
SyncedInline(el, i) ==
    [id |-> el.inlineId, attributes |-> {}, text |-> SyncedText(el, i),
     type |-> el.format, isEmbed |-> isEmbed(el.format)]

\* one call of the reducer of getInlineContents
SyncStep(st, el, i) ==
    IF ~InlineWellFormed(el) THEN st
    ELSE [contents |-> Append(st.contents, SyncedInline(el, i)),
          affected |-> st.affected \/ EndsWithFEFF(el.innerText)
                         \/ StartsWithFEFF(el.innerText),
          affectedLength |-> IF StartsWithFEFF(el.innerText) THEN -1
                             ELSE st.affectedLength]

\* the reduce of getInlineContents from child i on
RECURSIVE SyncLoop(_, _, _)
SyncLoop(children, i, st) ==
    IF i > Len(children) THEN st
    ELSE SyncLoop(children, i + 1, SyncStep(st, children[i], i))

getInlineContents(element) ==
    IF element = Null
    THEN [contents |-> <<>>, affected |-> FALSE, affectedLength |-> 0]
    ELSE SyncLoop(element.children, 1,
                  [contents |-> <<>>, affected |-> FALSE, affectedLength |-> 0])

\* ------------------------------------------------------------------ inputs
\* the runs a contents sequence is drawn from (without their id)
RunKinds ==
    { [type |-> "TEXT", text |-> <<>>, attributes |-> {}, isEmbed |-> FALSE],
      [type |-> "TEXT", text |-> <<FEFF>>, attributes |-> {}, isEmbed |-> FALSE],
      [type |-> "TEXT", text |-> <<"a">>, attributes |-> {"bold"}, isEmbed |-> FALSE],
      [type |-> "TEXT", text |-> <<"a", "b", "c">>, attributes |-> {}, isEmbed |-> FALSE],
      [type |-> "IMAGE", text |-> <<"x", "y">>, attributes |-> {}, isEmbed |-> TRUE] }

\* run i of a sequence has id i
WithIds(ks) ==
    [i \in 1..Len(ks) |->
        [id |-> i, type |-> ks[i].type, text |-> ks[i].text,
         attributes |-> ks[i].attributes, isEmbed |-> ks[i].isEmbed]]

ContentsSet ==
    UNION { { WithIds(ks) : ks \in [1..n -> RunKinds] } : n \in 0..MaxRuns }

\* sum over runs of 1 (embed) or character count (text)
RECURSIVE Length(_)
Length(c) == IF c = <<>> THEN 0 ELSE InlineLength(Head(c)) + Length(Tail(c))

IndexSet(c) == -1..(Length(c) + 1)

LengthSet == -1..MaxLength

NoArgs == [index |-> 0, length |-> 0]

\* ----------------------------------------------------------------- history
Sources == {"user", "silent", "collaborator"}

\* ids of the blocks of the document
BlockIds == {1}

\* what the store holds for a block: nothing, or one of two versions of it
Absent == "absent"

BlockValues == {"v1", "v2"}

\* Records recording whatever the source
Records_Always(source) == TRUE

\* only a user-sourced mutation is recorded
Records(source) == source = "user"

\* push a frame, evicting the oldest frame beyond the maximum
PushFrame(stack, frame) ==
    LET pushed == Append(stack, frame)
    IN IF Len(pushed) > MaxStack THEN Tail(pushed) ELSE pushed

\* the open frame merged with a further inverse operation: the frame keeps,
\* for each block, the operation that restores the oldest state
Merge(frame, inverse) ==
    IF \E k \in 1..Len(frame) : frame[k].id = inverse.id
    THEN frame
    ELSE <<inverse>> \o frame

\* the history after a mutation with the given inverse operation: a new
\* frame, or the open frame merged with the inverse operation
Record(h, inverse, source) ==
    IF ~Records(source) THEN h
    ELSE IF h.recording /\ h.undo # <<>>
         THEN [h EXCEPT !.undo[Len(h.undo)] = Merge(@, inverse)]
         ELSE [h EXCEPT !.undo = PushFrame(@, <<inverse>>), !.recording = TRUE]

\* an operation sets a block to a value, Absent for a deletion; the
\* operation that undoes op in the store st sets the block to what it holds
InverseOf(st, op) == [id |-> op.id, value |-> st[op.id]]

\* the call that carries out op on the store st
TypeOf(st, op) ==
    IF op.value = Absent THEN "delete"
    ELSE IF st[op.id] = Absent THEN "create" ELSE "update"

\* an update or a deletion of an unknown id is a lookup miss, and so is the
\* creation of a block that exists
Effective(st, type, op) ==
    IF type = "create" THEN st[op.id] = Absent ELSE st[op.id] # Absent

\* updateBlock / deleteBlock / createBlock on the editor state h: a lookup
\* miss is a no-op, otherwise the store is changed and the inverse recorded
\* according to the source
ApplyOp(h, type, op, source) ==
    IF ~Effective(h.blocks, type, op) THEN h
    ELSE Record([h EXCEPT !.blocks[op.id] = op.value],
                InverseOf(h.blocks, op), source)

\* apply the operations of a frame from operation i on with source silent,
\* collecting in done the operations that undo them, newest first
RECURSIVE ApplyFrame(_, _, _, _)
ApplyFrame(h, frame, i, done) ==
    IF i > Len(frame) THEN [h |-> h, done |-> done]
    ELSE LET type == TypeOf(h.blocks, frame[i])
         IN ApplyFrame(ApplyOp(h, type, frame[i], "silent"), frame, i + 1,
                       IF Effective(h.blocks, type, frame[i])
                       THEN <<InverseOf(h.blocks, frame[i])>> \o done
                       ELSE done)

\* undo(): pop the last frame, apply it silently, push its reverse on redo
undo(h) ==
    IF h.undo = <<>> THEN h
    ELSE LET frame == h.undo[Len(h.undo)]
             popped == [h EXCEPT !.undo = SubSeq(@, 1, Len(@) - 1),
                                 !.recording = FALSE]
             r == ApplyFrame(popped, frame, 1, <<>>)
         IN [r.h EXCEPT !.redo = Append(@, r.done), !.recording = FALSE]

\* redo(): pop the last redone frame, apply it silently, push its reverse
\* on the history stack
redo(h) ==
    IF h.redo = <<>> THEN h
    ELSE LET frame == h.redo[Len(h.redo)]
             popped == [h EXCEPT !.redo = SubSeq(@, 1, Len(@) - 1),
                                 !.recording = FALSE]
             r == ApplyFrame(popped, frame, 1, <<>>)
         IN [r.h EXCEPT !.undo = PushFrame(@, r.done), !.recording = FALSE]

\* the editor state as one record
Editor == [blocks |-> blocks, undo |-> undoStack, redo |-> redoStack,
           recording |-> recording]

\* the editor state after a call
Becomes(h) ==
    /\ blocks' = h.blocks
    /\ undoStack' = h.undo
    /\ redoStack' = h.redo
    /\ recording' = h.recording

NoCall == [op |-> "none", source |-> "none"]

\* a new editor: one block, empty stacks
InitHistory ==
    /\ blocks = [id \in BlockIds |-> IF id = 1 THEN "v1" ELSE Absent]
    /\ undoStack = <<>>
    /\ redoStack = <<>>
    /\ recording = FALSE
    /\ call = NoCall

\* ------------------------------------------------------------------- state
Init ==
    /\ contents \in ContentsSet
    /\ dom = [children |-> Render(contents)]
    /\ pc = "ready"
    /\ args = NoArgs
    /\ ret = Null
    /\ InitHistory

DeleteInlineContents ==
    /\ pc = "ready"
    /\ \E index \in IndexSet(contents), length \in LengthSet :
         /\ args' = [index |-> index, length |-> length]
         /\ ret' = [dest |-> deleteInlineContents(contents, index, length),
                    length |-> DeleteWalk(contents, index, length).length]
    /\ pc' = "deleted"
    /\ UNCHANGED <<contents, dom, hvars>>

SplitInlineContents ==
    /\ pc = "ready"
    /\ \E index \in IndexSet(contents), length \in LengthSet :
         /\ args' = [index |-> index, length |-> length]
         /\ ret' = splitInlineContents(contents, index, length)
    /\ pc' = "split"
    /\ UNCHANGED <<contents, dom, hvars>>

GetBlockLength ==
    /\ pc = "ready"
    /\ \E element \in {dom, Null} :
         /\ args' = [index |-> 0, length |-> 0, known |-> element # Null]
         /\ ret' = getBlockLength(element)
    /\ pc' = "measured"
    /\ UNCHANGED <<contents, dom, hvars>>

GetNativeIndexFromBlockIndex ==
    /\ pc = "ready"
    /\ \E index \in IndexSet(contents) :
         /\ args' = [index |-> index, length |-> 0]
         /\ ret' = getNativeIndexFromBlockIndex(dom, index)
    /\ pc' = "native"
    /\ UNCHANGED <<contents, dom, hvars>>

\* the caret position found by getNativeIndexFromBlockIndex, mapped back
GetBlockIndexFromNativeIndex ==
    /\ pc = "native"
    /\ ~ret.null
    /\ ret' = [native |-> ret,
               block |-> getBlockIndexFromNativeIndex(dom, ret.node, ret.index)]
    /\ pc' = "mapped"
    /\ UNCHANGED <<contents, dom, args, hvars>>

Next ==
    \/ DeleteInlineContents
    \/ SplitInlineContents
    \/ GetBlockLength
    \/ GetNativeIndexFromBlockIndex
    \/ GetBlockIndexFromNativeIndex

Spec == Init /\ [][Next]_vars

\* --------------------------------------------------------- reconciliation
\* the rendered surface is edited outside the editor: child i loses its
\* data-format or its data-inline-id
DomMutation ==
    /\ pc = "ready"
    /\ \E i \in 1..Len(dom.children) :
         \/ /\ dom.children[i].format # NoFormat
            /\ dom' = [dom EXCEPT !.children[i].format = NoFormat]
         \/ /\ dom.children[i].inlineId # NoInlineId
            /\ dom' = [dom EXCEPT !.children[i].inlineId = NoInlineId]
    /\ UNCHANGED <<contents, pc, args, ret, hvars>>

GetInlineContents ==
    /\ pc = "ready"
    /\ \E element \in {dom, Null} :
         /\ args' = [index |-> 0, length |-> 0, known |-> element # Null]
         /\ ret' = getInlineContents(element)
    /\ pc' = "synced"
    /\ UNCHANGED <<contents, dom, hvars>>

NextSync ==
    \/ DomMutation
    \/ GetInlineContents

SpecSync == Init /\ [][NextSync]_vars

\* ------------------------------------------------------------ block store
UpdateBlock ==
    /\ \E id \in BlockIds, value \in BlockValues, source \in Sources :
         /\ Becomes(ApplyOp(Editor, "update", [id |-> id, value |-> value], source))
         /\ call' = [op |-> "updateBlock", source |-> source]
    /\ UNCHANGED <<contents, dom, pc, args, ret>>

DeleteBlock ==
    /\ \E id \in BlockIds, source \in Sources :
         /\ Becomes(ApplyOp(Editor, "delete", [id |-> id, value |-> Absent], source))
         /\ call' = [op |-> "deleteBlock", source |-> source]
    /\ UNCHANGED <<contents, dom, pc, args, ret>>

CreateBlock ==
    /\ \E id \in BlockIds, value \in BlockValues, source \in Sources :
         /\ Becomes(ApplyOp(Editor, "create", [id |-> id, value |-> value], source))
         /\ call' = [op |-> "createBlock", source |-> source]
    /\ UNCHANGED <<contents, dom, pc, args, ret>>

Undo ==
    /\ Len(redoStack) < MaxStack
    /\ Becomes(undo(Editor))
    /\ call' = [op |-> "undo", source |-> "silent"]
    /\ UNCHANGED <<contents, dom, pc, args, ret>>

Redo ==
    /\ Becomes(redo(Editor))
    /\ call' = [op |-> "redo", source |-> "silent"]
    /\ UNCHANGED <<contents, dom, pc, args, ret>>

\* the coalescing delay passes: the open frame closes
DelayElapses ==
    /\ recording
    /\ recording' = FALSE
    /\ call' = [op |-> "delay", source |-> "none"]
    /\ UNCHANGED <<contents, dom, pc, args, ret, blocks, undoStack, redoStack>>

InitEditor ==
    /\ contents = <<createInline("TEXT")>>
    /\ dom = [children |-> Render(contents)]
    /\ pc = "ready"
    /\ args = NoArgs
    /\ ret = Null
    /\ InitHistory

NextHistory ==
    \/ UpdateBlock
    \/ DeleteBlock
    \/ CreateBlock
    \/ Undo
    \/ Redo
    \/ DelayElapses

SpecHistory == InitEditor /\ [][NextHistory]_vars

\* ------------------------------------------------------------ claim helpers
IdsOf(c) == { c[i].id : i \in 1..Len(c) }

\* linear offset at which run i of c starts
StartOf(c, i) == Length(SubSeq(c, 1, i - 1))

\* the index space of one run: a unit per character of a text run, one unit
\* for an embed run
UnitsOfRun(inline) ==
    IF inline.isEmbed THEN << <<inline.id, inline.type>> >>
    ELSE [k \in 1..Len(inline.text) |-> <<inline.id, inline.text[k]>>]

\* the index space of a contents sequence, unit by unit
RECURSIVE Units(_)
Units(c) == IF c = <<>> THEN <<>> ELSE UnitsOfRun(Head(c)) \o Units(Tail(c))

\* before followed by after, the two fragments of a cut run joined again
Rejoin(before, after) ==
    IF /\ before # <<>>
       /\ after # <<>>
       /\ before[Len(before)].id = after[1].id
       /\ ~after[1].isEmbed
    THEN SubSeq(before, 1, Len(before) - 1)
           \o << [after[1] EXCEPT !.text = before[Len(before)].text \o after[1].text] >>
           \o Tail(after)
    ELSE before \o after

\* a block as the data model describes it: at least one run, no text run
\* without text
RealBlock(c) ==
    /\ Len(c) >= 1
    /\ \A i \in 1..Len(c) : c[i].isEmbed \/ c[i].text # <<>>

Clamp(x, lo, hi) == IF x < lo THEN lo ELSE IF x > hi THEN hi ELSE x

\* C1: splitInlineContents(c, index, 0) with 0 <= index <= length(c) returns
\* (before, after) whose concatenation is c again, run for run, the two
\* fragments of the cut run rejoined.
C1_SplitReconstructs ==
    (/\ pc = "split"
     /\ RealBlock(contents)
     /\ args.length = 0
     /\ args.index \in 0..Length(contents))
    => Rejoin(ret.first, ret.last) = contents

\* C2: deleteInlineContents(c, index, length) with 0 <= index < length(c) and
\* length >= 1 removes min(length, length(c) - index) units, unless the
\* result is the placeholder, also when the range spans several runs.
C2_DeleteRemovesLength ==
    (/\ pc = "deleted"
     /\ RealBlock(contents)
     /\ args.index \in 0..(Length(contents) - 1)
     /\ args.length >= 1
     /\ ret.dest # <<createInline("TEXT")>>)
    => Length(ret.dest)
         = Length(contents) - Min(args.length, Length(contents) - args.index)

\* C3: deleteInlineContents never returns an empty sequence, whatever the
\* input, index and length; when no run of the input is left the result is
\* exactly one placeholder text run.
C3_DeleteNeverEmpty ==
    pc = "deleted" =>
       /\ Len(ret.dest) >= 1
       /\ (IdsOf(ret.dest) \cap IdsOf(contents) = {})
             => ret.dest = <<createInline("TEXT")>>

\* C3 witness: a non-empty input of which a deletion removed every run
C3_Witness ==
    /\ pc = "deleted"
    /\ Len(contents) >= 1
    /\ args.length >= 1
    /\ ret.dest = <<createInline("TEXT")>>

\* C4: a range [index, index+length) with length >= 1 that overlaps an embed
\* run removes that embed run, whether the range starts on the embed or in an
\* earlier run, and a range that starts on it costs exactly 1 of the length.
C4_DeleteDropsOverlappedEmbed ==
    (pc = "deleted" /\ RealBlock(contents) /\ args.length >= 1 /\ args.index >= 0) =>
       \A i \in 1..Len(contents) :
          (/\ contents[i].isEmbed
           /\ StartOf(contents, i) >= args.index
           /\ StartOf(contents, i) < args.index + args.length)
          => /\ contents[i].id \notin IdsOf(ret.dest)
             /\ (StartOf(contents, i) = args.index => ret.length = args.length - 1)

\* number of units splitInlineContents is asked to discard at index
Discarded(c, index, length) == Min(length, Length(c) - index)

\* C5: splitInlineContents(c, index, length) with 0 <= index <= length(c) and
\* length >= 0 assigns by position: before is the content at offsets
\* [0, index), after the content from index + discarded units on.
C5_SplitPositional ==
    (/\ pc = "split"
     /\ RealBlock(contents)
     /\ args.index \in 0..Length(contents)
     /\ args.length >= 0)
    => /\ Units(ret.first) = SubSeq(Units(contents), 1, args.index)
       /\ Units(ret.last)
            = SubSeq(Units(contents),
                     args.index + Discarded(contents, args.index, args.length) + 1,
                     Length(contents))

ClampedIndex == Clamp(args.index, 0, Length(contents))

ClampedLength == Clamp(args.length, 0, Length(contents) - ClampedIndex)

\* C6: out-of-range index and length are clamped: deleteInlineContents and
\* splitInlineContents return what the call with index clamped into
\* [0, length(c)] and length clamped into [0, length(c) - index] returns.
C6_OutOfRangeClamped ==
    /\ (pc = "deleted" /\ RealBlock(contents))
         => ret.dest = deleteInlineContents(contents, ClampedIndex, ClampedLength)
    /\ (pc = "split" /\ RealBlock(contents))
         => LET r == splitInlineContents(contents, ClampedIndex, ClampedLength)
            IN ret.first = r.first /\ ret.last = r.last

\* number of times run x occurs in c
Occurrences(c, x) == Cardinality({ i \in 1..Len(c) : c[i] = x })

\* C7: when the cut index falls on an embed run, splitInlineContents puts
\* that run whole and unmodified into after, not into before, and the
\* discard budget goes down by exactly 1.
C7_SplitEmbedToAfter ==
    pc = "split" =>
       \A i \in 1..Len(contents) :
          (contents[i].isEmbed /\ StartOf(contents, i) = args.index)
          => /\ Occurrences(ret.last, contents[i]) = 1
             /\ contents[i].id \notin IdsOf(ret.first)
             /\ ret.length = args.length - 1

\* C7 witness: a split with a discard budget whose cut index is on an embed
\* run that follows another run
C7_Witness ==
    /\ pc = "split"
    /\ args.length >= 1
    /\ \E i \in 2..Len(contents) :
          /\ contents[i].isEmbed
          /\ StartOf(contents, i) = args.index
          /\ contents[i] \in { ret.last[k] : k \in 1..Len(ret.last) }

\* characters of a text that are not the sentinel
VisibleChars(text) == Cardinality({ k \in 1..Len(text) : text[k] # FEFF })

\* 1 per embed run, visible characters per text run
RECURSIVE RunSum(_)
RunSum(c) ==
    IF c = <<>> THEN 0
    ELSE (IF Head(c).isEmbed THEN 1 ELSE VisibleChars(Head(c).text)) + RunSum(Tail(c))

\* C8: getBlockLength of a known block is the sum over its runs of 1 per
\* embed and the character count per text run, the sentinel counting 0; the
\* block left after deleting all characters of its only text run is one
\* non-embed placeholder run of block length 0.
C8_BlockLength ==
    /\ (pc = "measured" /\ args.known)
         => (~ret.null /\ ret.value = RunSum(contents))
    /\ (/\ pc = "deleted"
        /\ Len(contents) = 1
        /\ ~contents[1].isEmbed
        /\ Len(contents[1].text) >= 1
        /\ args.index = 0
        /\ args.length >= Len(contents[1].text))
         => /\ Len(ret.dest) = 1
            /\ ~ret.dest[1].isEmbed
            /\ ret.dest[1].id \notin IdsOf(contents)
            /\ getBlockLength([children |-> Render(ret.dest)]).value = 0

\* C8 witness: the length of a block holding an embed, a sentinel and text
C8_Witness ==
    /\ pc = "measured"
    /\ args.known
    /\ \E i, j, k \in 1..Len(contents) :
          /\ contents[i].isEmbed
          /\ contents[j].text = <<FEFF>>
          /\ contents[k].text = <<"a", "b", "c">>
    /\ ret.value = 4

\* the length getBlockLength reports for the rendered block
TotalLength == getBlockLength(dom).value

\* C9: getNativeIndexFromBlockIndex returns null for every index greater
\* than the block length getBlockLength reports, and a run with an offset
\* for every index in [0, block length].
C9_NativeIndexWithinLength ==
    (pc = "native" /\ RealBlock(contents)) =>
       /\ args.index > TotalLength => ret.null
       /\ args.index \in 0..TotalLength => ~ret.null

\* C10: for every index in [0, block length] the position that
\* getNativeIndexFromBlockIndex returns is mapped back to the same index by
\* getBlockIndexFromNativeIndex.
C10_RoundTrip ==
    (pc = "mapped" /\ args.index \in 0..TotalLength) =>
       /\ ~ret.block.null
       /\ ret.block.index = args.index

\* C10 witness: a position in a run that follows a sentinel run and an embed
C10_Witness ==
    /\ pc = "mapped"
    /\ args.index \in 1..TotalLength
    /\ ret.native.node.child >= 3
    /\ ret.native.index >= 1
    /\ \E i, j \in 1..2 : contents[i].isEmbed /\ contents[j].text = <<FEFF>>
    /\ ret.block.index = args.index

\* the children of the snapshot that carry a type tag and a run id
WellFormedChildren ==
    SelectSeq(dom.children,
              LAMBDA el : el.format # NoFormat /\ el.inlineId # NoInlineId)

\* C11: getInlineContents skips exactly the children that lack a type tag or
\* a run id and never aborts: the runs it returns are the well-formed
\* children, each once and in their order, with their id and type.
C11_SyncSkipsMalformed ==
    (pc = "synced" /\ args.known) =>
       /\ Len(ret.contents) = Len(WellFormedChildren)
       /\ \A k \in 1..Len(ret.contents) :
             /\ ret.contents[k].id = WellFormedChildren[k].inlineId
             /\ ret.contents[k].type = WellFormedChildren[k].format
             /\ ret.contents[k].isEmbed = isEmbed(WellFormedChildren[k].format)

\* C11 witness: a snapshot of three children, one without type tag and one
\* without run id, of which the remaining one is returned
C11_Witness ==
    /\ pc = "synced"
    /\ args.known
    /\ Len(dom.children) = 3
    /\ \E i, j \in 1..3 :
          /\ i # j
          /\ dom.children[i].format = NoFormat
          /\ dom.children[i].inlineId # NoInlineId
          /\ dom.children[j].inlineId = NoInlineId
          /\ dom.children[j].format # NoFormat
    /\ Len(ret.contents) = 1

\* the runs of c whose id is not in ids
Without(c, ids) == SelectSeq(c, LAMBDA r : r.id \notin ids)

\* ids of the runs of c whose span [start, start + runLength) holds index
HoldingIds(c, index) ==
    { c[i].id : i \in { j \in 1..Len(c) :
                          /\ StartOf(c, j) <= index
                          /\ index < StartOf(c, j) + InlineLength(c[j]) } }

SplitUnits == Units(ret.first) \o Units(ret.last)

\* C14: splitInlineContents conserves content for every c, index and
\* length >= 0: each embed run of c is exactly once in before and after
\* together, no character is there twice or invented, and
\* length(c) - length <= length(before) + length(after) <= length(c), with
\* equality to length(c) when length = 0.
C14_SplitConserves ==
    (pc = "split" /\ args.length >= 0) =>
       /\ \A i \in 1..Len(contents) :
             contents[i].isEmbed
               => Occurrences(ret.first, contents[i])
                    + Occurrences(ret.last, contents[i]) = 1
       /\ \A k, l \in 1..Len(SplitUnits) : SplitUnits[k] = SplitUnits[l] => k = l
       /\ \A k \in 1..Len(SplitUnits) :
             \E l \in 1..Len(Units(contents)) : Units(contents)[l] = SplitUnits[k]
       /\ Length(contents) - args.length <= Length(ret.first) + Length(ret.last)
       /\ Length(ret.first) + Length(ret.last) <= Length(contents)
       /\ args.length = 0 => Length(ret.first) + Length(ret.last) = Length(contents)

\* C14 witness: a split that discards characters of a text run and has an
\* embed and another run on the sides
C14_Witness ==
    /\ pc = "split"
    /\ args.length >= 1
    /\ Len(contents) = 3
    /\ \E i \in 1..3 : contents[i].isEmbed
    /\ ret.first # <<>>
    /\ ret.last # <<>>
    /\ Length(ret.first) + Length(ret.last) < Length(contents)

StoreCalls == {"updateBlock", "deleteBlock", "createBlock"}

\* C12: after any sequence of updateBlock/deleteBlock/createBlock/undo/redo
\* a mutating call with source silent or collaborator never makes the
\* history stack larger (it leaves it as it is), the stack only grows by a
\* user-sourced call (or by redo putting a frame back), and undo() takes one
\* frame off without its silent inverse operations recording anything.
C12_SilentNeverRecords ==
    [][ /\ (call'.op \in StoreCalls /\ call'.source \in {"silent", "collaborator"})
           => undoStack' = undoStack
        /\ Len(undoStack') > Len(undoStack)
           => (call'.op = "redo" \/ (call'.op \in StoreCalls /\ call'.source = "user"))
        /\ (call'.op = "undo" /\ undoStack # <<>>)
           => undoStack' = SubSeq(undoStack, 1, Len(undoStack) - 1) ]_vars

\* C12 witness: a silent update of a known block while the
\* history holds a frame and an undone frame waits on the redo stack
C12_Witness ==
    /\ call.op = "updateBlock"
    /\ call.source = "silent"
    /\ blocks[1] # Absent
    /\ Len(undoStack) = 1
    /\ redoStack # <<>>

====
